---- MODULE Spec2Model ----
(***************************************************************************)
(* Model of src/src/lib.rs (avsfldrs): the AVS FLD header parser           *)
(* (AVSFile::open), the payload decoders (AVSFile::read_to_f32,            *)
(* AVSFile::read) and the writer (AVSFile::write).                         *)
(*                                                                         *)
(* Bytes are numbers 0..255; a file, a line and a token are sequences of   *)
(* bytes.  An f32 is its four bytes in memory order on a little-endian     *)
(* target.  Option<T> is a sequence of length 0 (None) or 1 (Some).        *)
(* A panic (index out of bounds) unwinds the calling thread and is         *)
(* the outcome "panic", which is not a returned Result.                    *)
(* Reads of an open file are taken to succeed (no Error::IO from read or   *)
(* read_to_end), and extents stay far below usize::MAX, so the product of  *)
(* the extents does not overflow.                                          *)
(***************************************************************************)
EXTENDS Integers, Sequences, FiniteSets, TLC

\* ------------------------------------------------------------------ bounds
MaxLines == 2      \* header lines drawn freely from Lines
MaxDims == 3       \* axes of the well-formed headers and of write's dims
MaxData == 2       \* elements handed to write
MaxReads == 2      \* payload reads made on one handle
MaxLine == 3       \* bytes the line buffer can gain at EOF before memory is exhausted

\* ----------------------------------------------------------- byte literals
NL == 10           \* '\n'
FF == 12           \* form feed, written 12 as char
EQ == 61           \* '='
PLUS == 43         \* '+'
MINUS == 45        \* '-'
DIGIT0 == 48       \* '0'

K_ndim == <<110, 100, 105, 109>>
K_dim == <<100, 105, 109>>
K_data == <<100, 97, 116, 97>>
K_field == <<102, 105, 101, 108, 100>>
K_variable == <<118, 97, 114, 105, 97, 98, 108, 101, 32, 49, 32, 102, 105, 108, 101>>
V_float_le == <<102, 108, 111, 97, 116, 95, 108, 101>>
V_xdr_float == <<120, 100, 114, 95, 102, 108, 111, 97, 116>>
V_byte == <<98, 121, 116, 101>>
V_uniform == <<117, 110, 105, 102, 111, 114, 109>>

\* the fixed pieces write emits
W_comment == <<35, 32, 65, 86, 83, 32, 70, 76, 68, 32, 102, 105, 108, 101, 32, 40, 119, 114, 105, 116, 116, 101, 110, 32, 98, 121, 32, 97, 118, 115, 102, 108, 100, 114, 115, 32, 103, 105, 116, 104, 117, 98, 46, 99, 111, 109, 47, 103, 114, 101, 121, 104, 105, 108, 108, 47, 97, 118, 115, 102, 108, 100, 114, 115, 41, 10>>
W_ndim == <<110, 100, 105, 109, 61>>
W_veclen == <<118, 101, 99, 108, 101, 110, 61, 49, 10>>
W_nspace == <<110, 115, 112, 97, 99, 101, 61>>
W_field == <<102, 105, 101, 108, 100, 61, 117, 110, 105, 102, 111, 114, 109, 10>>
W_data == <<100, 97, 116, 97, 61, 102, 108, 111, 97, 116, 95, 108, 101, 10>>
W_dim == <<100, 105, 109>>

\* ------------------------------------------------------------------ Option
None == <<>>
Some(x) == <<x>>
IsSome(o) == Len(o) = 1
Unwrap(o) == o[1]

\* ------------------------------------------------------------ str helpers
\* char::is_whitespace on a byte pushed as char (U+0000..U+00FF)
IsWhitespace(c) == c \in {9, 10, 11, 12, 13, 32, 133, 160}

RECURSIVE TrimStart(_)
TrimStart(s) ==
    IF s = <<>> THEN <<>>
    ELSE IF IsWhitespace(Head(s)) THEN TrimStart(Tail(s)) ELSE s

RECURSIVE TrimEnd(_)
TrimEnd(s) ==
    IF s = <<>> THEN <<>>
    ELSE IF IsWhitespace(s[Len(s)]) THEN TrimEnd(SubSeq(s, 1, Len(s) - 1)) ELSE s

\* str::trim
Trim(s) == TrimEnd(TrimStart(s))

\* str::split('='): a new piece starts after every '='
RECURSIVE SplitEq(_, _)
SplitEq(s, cur) ==
    IF s = <<>> THEN <<cur>>
    ELSE IF Head(s) = EQ THEN <<cur>> \o SplitEq(Tail(s), <<>>)
    ELSE SplitEq(Tail(s), Append(cur, Head(s)))

\* line.split('=').map(|s| s.trim()).collect()
Tokens(l) == LET parts == SplitEq(l, <<>>) IN [i \in 1..Len(parts) |-> Trim(parts[i])]

IsDigit(c) == c >= DIGIT0 /\ c <= DIGIT0 + 9

RECURSIVE DigitsValue(_, _)
DigitsValue(s, acc) ==
    IF s = <<>> THEN acc ELSE DigitsValue(Tail(s), acc * 10 + (Head(s) - DIGIT0))

\* str::parse::<usize>: None stands for Err(ParseIntError)
ParseUsize(s) ==
    IF s = <<>> THEN None
    ELSE IF Head(s) \in {PLUS, MINUS} /\ Len(s) = 1 THEN None
    ELSE LET digits == IF Head(s) = PLUS THEN Tail(s) ELSE s
         IN IF \A i \in 1..Len(digits) : IsDigit(digits[i])
            THEN Some(DigitsValue(digits, 0))
            ELSE None

\* {} of a usize: decimal digits, no padding
RECURSIVE Decimal(_)
Decimal(n) ==
    IF n < 10 THEN <<DIGIT0 + n>> ELSE Append(Decimal(n \div 10), DIGIT0 + (n % 10))

RECURSIVE Concat(_)
Concat(ss) == IF ss = <<>> THEN <<>> ELSE Head(ss) \o Concat(Tail(ss))

\* ---------------------------------------------------------------- DataType
\* DataType::from_str: None stands for Err(Error::DataType)
DataType_from_str(s) ==
    IF s = V_float_le THEN Some("FloatLE")
    ELSE IF s = V_xdr_float THEN Some("XDRFloat")
    ELSE IF s = V_byte THEN Some("Byte")
    ELSE None

num_bytes(dt) == IF dt = "Byte" THEN 1 ELSE 4

RECURSIVE Pow2(_)
Pow2(e) == IF e = 0 THEN 1 ELSE 2 * Pow2(e - 1)

\* u8 as f32: the IEEE-754 single with the numeric value b, as its bytes
U8AsF32(b) ==
    IF b = 0 THEN <<0, 0, 0, 0>>
    ELSE LET e == CHOOSE k \in 0..7 : Pow2(k) <= b /\ b < 2 * Pow2(k)
             mant == (b - Pow2(e)) * Pow2(23 - e)
             hi == 127 + e                      \* biased exponent, sign 0
         IN <<mant % 256, (mant \div 256) % 256,
              ((mant \div 65536) % 128) + 128 * (hi % 2), hi \div 2>>

\* variant: every 4-byte encoding is reversed
convert_to_f32_always_reversed(dt, buf) ==
    CASE dt = "XDRFloat" -> <<buf[4], buf[3], buf[2], buf[1]>>
      [] dt = "FloatLE" -> <<buf[4], buf[3], buf[2], buf[1]>>
      [] dt = "Byte" -> U8AsF32(buf[1])

\* DataType::convert_to_f32 on a slice of num_bytes bytes
convert_to_f32(dt, buf) ==
    CASE dt = "XDRFloat" -> <<buf[4], buf[3], buf[2], buf[1]>>
      [] dt = "FloatLE" -> <<buf[1], buf[2], buf[3], buf[4]>>
      [] dt = "Byte" -> U8AsF32(buf[1])

\* FieldType::from_str: None stands for Err(Error::FieldType)
FieldType_from_str(s) == IF s = V_uniform THEN Some("Uniform") ELSE None

\* ------------------------------------------------- open: one header line
MaxDimKey == 7     \* dim1 .. dim7 are the keys of the match
DimKey(K) == K_dim \o <<DIGIT0 + K>>

\* variant: the slot index is not brought back to base 0
DimSlot_shifted(K) == K + 1

\* the slot of sizes that the arm "dimK" assigns (sizes[K-1], 1-based here)
DimSlot(K) == K

RECURSIVE Nones(_)
Nones(n) == IF n = 0 THEN <<>> ELSE <<None>> \o Nones(n - 1)

Locals(nd, sz, dt, ft, ex) ==
    [ndim |-> nd, sizes |-> sz, data_type |-> dt, field_type |-> ft, external |-> ex]

Continue(st) == [kind |-> "ok", err |-> "None", st |-> st]
Fail(e, st) == [kind |-> "err", err |-> e, st |-> st]
Panic(st) == [kind |-> "panic", err |-> "None", st |-> st]

\* arm "ndim": tokens[1] is indexed, parsed, then nd slots are pushed
ArmNdim(tokens, st) ==
    IF Len(tokens) < 2 THEN Panic(st)
    ELSE LET nd == ParseUsize(tokens[2])
         IN IF nd = None THEN Fail("Parse", st)
            ELSE Continue([st EXCEPT !.ndim = nd,
                                     !.sizes = st.sizes \o Nones(Unwrap(nd))])

\* arm "dimK": the assigned value is evaluated before the place sizes[K-1]
ArmDim(K, tokens, st) ==
    IF Len(tokens) < 2 THEN Panic(st)
    ELSE LET v == ParseUsize(tokens[2])
         IN IF v = None THEN Fail("Parse", st)
            ELSE IF Len(st.sizes) < DimSlot(K) THEN Panic(st)
            ELSE Continue([st EXCEPT !.sizes[DimSlot(K)] = v])

ArmData(tokens, st) ==
    IF Len(tokens) < 2 THEN Panic(st)
    ELSE LET dt == DataType_from_str(tokens[2])
         IN IF dt = None THEN Fail("DataType", st)
            ELSE Continue([st EXCEPT !.data_type = dt])

ArmField(tokens, st) ==
    IF Len(tokens) < 2 THEN Panic(st)
    ELSE LET ft == FieldType_from_str(tokens[2])
         IN IF ft = None THEN Fail("FieldType", st)
            ELSE Continue([st EXCEPT !.field_type = ft])

ArmVariable(tokens, st) ==
    IF Len(tokens) < 2 THEN Panic(st)
    ELSE Continue([st EXCEPT !.external = Some(tokens[2])])

\* the match on tokens[0] of a complete line
ProcessLine(l, st) ==
    LET tokens == Tokens(l)
        key == tokens[1]
    IN IF key = K_ndim THEN ArmNdim(tokens, st)
       ELSE IF \E K \in 1..MaxDimKey : key = DimKey(K)
            THEN ArmDim(CHOOSE K \in 1..MaxDimKey : key = DimKey(K), tokens, st)
       ELSE IF key = K_data THEN ArmData(tokens, st)
       ELSE IF key = K_field THEN ArmField(tokens, st)
       ELSE IF key = K_variable THEN ArmVariable(tokens, st)
       ELSE Continue(st)

\* variant: a single form feed ends the header
IsSentinel_single(new_char, last_char) == new_char = FF

\* the break condition of the scan loop
IsSentinel(new_char, last_char) == new_char = FF /\ last_char = FF

\* ------------------------------------------------------- open: after loop
\* variant: every slot that was set is collected, whatever ndim is
CollectSizes_set_slots(nd, sz) ==
    LET set == SelectSeq(sz, IsSome)
    IN IF \A idx \in 1..nd : IsSome(sz[idx])
       THEN Some([idx \in 1..Len(set) |-> Unwrap(set[idx])])
       ELSE None

\* the collection of tr.sizes: Some(sizes) or None for Err(Malformed)
CollectSizes(nd, sz) ==
    IF \A idx \in 1..nd : IsSome(sz[idx])
    THEN Some([idx \in 1..nd |-> Unwrap(sz[idx])])
    ELSE None

\* the fields of the AVSFile literal and the sizes loop, shared by both arms
BuildHandle(st, rd) ==
    IF ~IsSome(st.ndim) THEN Fail("Malformed", None)
    ELSE IF ~IsSome(st.data_type) THEN Fail("Malformed", None)
    ELSE IF ~IsSome(st.field_type) THEN Fail("Malformed", None)
    ELSE LET szs == CollectSizes(Unwrap(st.ndim), st.sizes)
         IN IF szs = None THEN Fail("Malformed", None)
            ELSE Continue(Some([ndim |-> Unwrap(st.ndim), sizes |-> Unwrap(szs),
                                data_type |-> Unwrap(st.data_type),
                                field_type |-> Unwrap(st.field_type),
                                reader |-> rd]))

\* ------------------------------------------------------------------- write
\* variant: the key is numbered from the enumerate index itself
WriteDimLine_zero_based(id, size) ==
    W_dim \o Decimal(id) \o <<EQ>> \o Decimal(size) \o <<NL>>

\* the line written for dims[id] (id counted from 0, as enumerate does)
WriteDimLine(id, size) == W_dim \o Decimal(id + 1) \o <<EQ>> \o Decimal(size) \o <<NL>>

\* the raw bytes of data: data.len() * size_of::<T>() bytes in memory order
RawBytes(d) == Concat(d)

\* variant: data= is written before field=
WriteBytes_data_first(ds, d) ==
    W_comment
    \o W_ndim \o Decimal(Len(ds)) \o <<NL>>
    \o W_veclen
    \o W_nspace \o Decimal(Len(ds)) \o <<NL>>
    \o W_data
    \o W_field
    \o Concat([id \in 1..Len(ds) |-> WriteDimLine(id - 1, ds[id])])
    \o <<FF, FF>>
    \o RawBytes(d)

\* everything AVSFile::write hands to the writer, in order
WriteBytes(ds, d) ==
    W_comment
    \o W_ndim \o Decimal(Len(ds)) \o <<NL>>
    \o W_veclen
    \o W_nspace \o Decimal(Len(ds)) \o <<NL>>
    \o W_field
    \o W_data
    \o Concat([id \in 1..Len(ds) |-> WriteDimLine(id - 1, ds[id])])
    \o <<FF, FF>>
    \o RawBytes(d)

\* ------------------------------------------------------------ payload reads
\* sizes.iter().fold(1, |l, r| l * r)
RECURSIVE Product(_)
Product(sz) == IF sz = <<>> THEN 1 ELSE Head(sz) * Product(Tail(sz))

\* variant: the loop runs over 0 ..= size
DecodeF32_inclusive(dt, size, buf_u8) ==
    IF \E n \in 0..size : (n + 1) * num_bytes(dt) > Len(buf_u8)
    THEN [res |-> "panic", val |-> <<>>]
    ELSE [res |-> "Ok",
          val |-> [n \in 1..size |->
                     convert_to_f32(dt, SubSeq(buf_u8, (n - 1) * num_bytes(dt) + 1,
                                               n * num_bytes(dt)))]]

\* the loop of read_to_f32 over buf_u8: a slice past the end panics
DecodeF32(dt, size, buf_u8) ==
    IF \E n \in 0..(size - 1) : (n + 1) * num_bytes(dt) > Len(buf_u8)
    THEN [res |-> "panic", val |-> <<>>]
    ELSE [res |-> "Ok",
          val |-> [n \in 1..size |->
                     convert_to_f32(dt, SubSeq(buf_u8, (n - 1) * num_bytes(dt) + 1,
                                               n * num_bytes(dt)))]]

\* the Vec<T> that read builds over buf_u8's allocation: size elements of w
\* bytes; a byte the stream did not supply is uninitialised (fill), and the
\* allocation is released with buf_u8 when read returns (clobbered)
RawVec(size, w, buf_u8, fill, clobbered) ==
    [n \in 1..size |->
        [k \in 1..w |->
            LET i == (n - 1) * w + k
            IN IF clobbered \/ i > Len(buf_u8) THEN fill ELSE buf_u8[i]]]

\* ------------------------------------------------------------------ inputs
KV(key, val) == key \o <<EQ>> \o val \o <<NL>>

ExtPath == <<112>>                     \* the path "p" of the external payload
Bad == <<122, 122, 122>>               \* "zzz", a value no match arm accepts
NotANumber == <<120>>                  \* "x"

\* header lines that are combined freely
Lines ==
    { KV(K_ndim, Decimal(1)),          \* ndim=1
      KV(K_ndim, NotANumber),          \* ndim=x
      K_ndim \o <<NL>>,                \* ndim          (a key without '=')
      KV(DimKey(1), Decimal(2)),       \* dim1=2
      KV(DimKey(1), Decimal(0)),       \* dim1=0
      KV(DimKey(2), Decimal(3)),       \* dim2=3
      KV(DimKey(1), NotANumber),       \* dim1=x
      KV(<<102, 111, 111>>, Decimal(1)),   \* foo=1     (unrecognized key)
      <<98, 97, 114, NL>>,             \* bar           (no '=')
      KV(K_data, Bad),                 \* data=zzz
      KV(K_field, Bad),                \* field=zzz
      KV(K_variable, ExtPath),         \* variable 1 file=p
      DimKey(1) \o <<EQ>> \o Decimal(12),  \* dim1=12   (no newline)
      <<FF>>,                          \* a lone form feed
      DimKey(1) \o <<32, EQ, 32>> \o Decimal(1) \o <<EQ>> \o Decimal(9) \o <<NL>>,
                                       \* dim1 = 1=9   (a second '=')
      KV(K_variable, ExtPath \o <<EQ, 113>>) }   \* variable 1 file=p=q

SeqsUpTo(S, n) == UNION {[1..k -> S] : k \in 0..n}

Pres == {<<>>, KV(K_ndim, Decimal(1))}
Posts == {<<>>, KV(K_data, V_byte) \o KV(K_field, V_uniform)}

\* what follows the header lines: nothing (no sentinel), or the sentinel and
\* a payload, which may again hold two adjacent form feeds
Tails == {<<>>, <<FF, FF>>, <<FF, FF, 200>>, <<FF, FF, 200, FF, FF>>}

FreeFiles ==
    {pre \o Concat(ls) \o post \o tl :
        pre \in Pres, ls \in SeqsUpTo(Lines, MaxLines), post \in Posts, tl \in Tails}

FreeInputs ==
    {[file |-> Some(f), extfile |-> x] : f \in FreeFiles, x \in {None, Some(<<9, 8>>)}}

\* well-formed headers: ndim=N, then dim1..dimN in any order, data, field
Perms(N) == {f \in [1..N -> 1..N] : \A i, j \in 1..N : f[i] = f[j] => i = j}
DimVal(K) == <<2, 3, 4, 1, 1, 1, 1>>[K]
Extents(N) == [K \in 1..N |-> DimVal(K)]
DataNames == {V_float_le, V_xdr_float, V_byte}

WellFormedHeader(N, perm, dtv, ext) ==
    KV(K_ndim, Decimal(N))
    \o Concat([i \in 1..N |-> KV(DimKey(perm[i]), Decimal(DimVal(perm[i])))])
    \o KV(K_data, dtv) \o KV(K_field, V_uniform)
    \o (IF ext THEN KV(K_variable, ExtPath) ELSE <<>>)

Pattern == <<64, 73, 15, 219, 200, 12, 12, 0>>
PayloadOf(n) == [i \in 1..n |-> Pattern[((i - 1) % 8) + 1]]
ExtPattern == <<1, 2, 3, 4, 5>>
ExtPayloadOf(n) == [i \in 1..n |-> ExtPattern[((i - 1) % 5) + 1]]

Need(N, dtv) == Product(Extents(N)) * (IF dtv = V_byte THEN 1 ELSE 4)
Around(n) == {m \in {n - 1, n, n + 1} : m >= 0}

WellFormedInputs ==
    UNION {
      UNION {
        {[file |-> Some(WellFormedHeader(N, perm, dtv, ext) \o <<FF, FF>> \o PayloadOf(m)),
          extfile |-> x] :
            perm \in Perms(N), m \in Around(Need(N, dtv)),
            x \in (IF ext THEN {None} \cup {Some(ExtPayloadOf(k)) : k \in Around(Need(N, dtv))}
                          ELSE {None})}
        : dtv \in DataNames, ext \in BOOLEAN}
      : N \in 0..MaxDims}

\* ndim=8: dim1..dim7 can be given, the eighth slot cannot
EightDims ==
    KV(K_ndim, Decimal(8))
    \o Concat([K \in 1..MaxDimKey |-> KV(DimKey(K), Decimal(1))])
    \o KV(K_data, V_byte) \o KV(K_field, V_uniform)

\* headers that give ndim twice, with the same or another value
RepeatedNdim ==
    { KV(K_ndim, Decimal(1)) \o KV(K_ndim, Decimal(2))
         \o KV(DimKey(1), Decimal(2)) \o KV(DimKey(2), Decimal(3)),
      KV(K_ndim, Decimal(2)) \o KV(DimKey(1), Decimal(2)) \o KV(DimKey(2), Decimal(3))
         \o KV(K_ndim, Decimal(1)),
      KV(K_ndim, Decimal(2)) \o KV(K_ndim, Decimal(2))
         \o KV(DimKey(3), Decimal(4)) \o KV(DimKey(1), Decimal(2)) \o KV(DimKey(2), Decimal(3)) }

SpecialInputs ==
    { [file |-> Some(h \o KV(K_data, V_byte) \o KV(K_field, V_uniform)
                       \o <<FF, FF>> \o PayloadOf(6)),
       extfile |-> None] : h \in RepeatedNdim }
    \cup
    { [file |-> None, extfile |-> None],
      [file |-> Some(EightDims \o <<FF, FF, 200>>), extfile |-> None],
      [file |-> Some(EightDims \o KV(K_variable, ExtPath) \o <<FF, FF>>),
       extfile |-> Some(<<9>>)] }

OpenInputs == FreeInputs \cup WellFormedInputs \cup SpecialInputs

\* the arguments of write: extents and 4-byte elements
ExtVals == {0, 1, 2}
Elems == {<<0, 0, 128, 63>>, <<12, 12, 73, 64>>}
WriteInputs ==
    {[dims |-> ds, data |-> d] :
        ds \in SeqsUpTo(ExtVals, MaxDims), d \in SeqsUpTo(Elems, MaxData)}

\* size_of::<T>() of the raw read, and what an uninitialised byte may hold
TWidths == {1, 4}
UninitBytes == {0, 255}

\* ------------------------------------------------------------------- state
VARIABLES
    file,        \* Option: the bytes of the file at the path given to open
    extfile,     \* Option: the bytes of the file at ExtPath
    dims, data,  \* the arguments of write
    pc,          \* "write", "open", "scan", "finalize", "ready", "err", "panic",
                 \* "abort"
    pos,         \* bytes of file consumed by open's reader
    zero_reads,  \* reads of the scan that returned Ok(0)
    line, last_char,
    ndim, sizes, data_type, field_type, external,   \* the locals of open
    err,         \* the Error open returned, or "None"
    handle,      \* Option: the AVSFile open returned
    calls        \* the payload reads made on the handle: the method, its
                 \* outcome, the Vec returned, the bytes read_to_end supplied,
                 \* the width of an element

vars == <<file, extfile, dims, data, pc, pos, zero_reads, line, last_char,
          ndim, sizes, data_type, field_type, external, err, handle, calls>>

openLocals == <<pos, zero_reads, line, last_char, ndim, sizes, data_type,
                field_type, external>>

InitLocals ==
    /\ pos = 0 /\ zero_reads = 0 /\ line = <<>> /\ last_char = 0
    /\ ndim = None /\ sizes = <<>> /\ data_type = None /\ field_type = None
    /\ external = None
    /\ err = "None" /\ handle = None /\ calls = <<>>

InitOpen ==
    /\ \E i \in OpenInputs : file = i.file /\ extfile = i.extfile
    /\ dims = <<>> /\ data = <<>>
    /\ pc = "open"
    /\ InitLocals

InitWrite ==
    /\ \E i \in WriteInputs : dims = i.dims /\ data = i.data
    /\ file = None /\ extfile = None
    /\ pc = "write"
    /\ InitLocals

Init == InitOpen \/ InitWrite

\* ----------------------------------------------------------------- actions
\* AVSFile::write into the file that is opened afterwards
Write ==
    /\ pc = "write"
    /\ file' = Some(WriteBytes(dims, data))
    /\ pc' = "open"
    /\ UNCHANGED <<extfile, dims, data, openLocals, err, handle, calls>>

\* File::open(path) at the head of AVSFile::open
OpenFile ==
    /\ pc = "open"
    /\ IF IsSome(file)
       THEN pc' = "scan" /\ err' = err
       ELSE pc' = "err" /\ err' = "IO"
    /\ UNCHANGED <<file, extfile, dims, data, openLocals, handle, calls>>

\* one iteration of the scan loop
ScanByte ==
    /\ pc = "scan"
    /\ LET F == Unwrap(file)
           at_eof == pos >= Len(F)
           new_char == IF at_eof THEN 0 ELSE F[pos + 1]
           st == Locals(ndim, sizes, data_type, field_type, external)
           r == ProcessLine(Append(line, new_char), st)
       IN IF at_eof /\ zero_reads >= MaxLine
          THEN \* line keeps growing at EOF until push cannot allocate: the
               \* process aborts
               /\ pc' = "abort"
               /\ UNCHANGED <<openLocals, err>>
          ELSE
          /\ pos' = IF at_eof THEN pos ELSE pos + 1
          /\ zero_reads' = IF at_eof THEN zero_reads + 1 ELSE zero_reads
          /\ IF IsSentinel(new_char, last_char)
             THEN /\ pc' = "finalize"
                  /\ UNCHANGED <<line, last_char, ndim, sizes, data_type,
                                 field_type, external, err>>
             ELSE /\ last_char' = new_char
                  /\ IF new_char = NL
                     THEN /\ pc' = CASE r.kind = "ok" -> "scan"
                                      [] r.kind = "err" -> "err"
                                      [] r.kind = "panic" -> "panic"
                          /\ err' = r.err
                          /\ line' = IF r.kind = "ok" THEN <<>> ELSE Append(line, new_char)
                          /\ ndim' = r.st.ndim
                          /\ sizes' = r.st.sizes
                          /\ data_type' = r.st.data_type
                          /\ field_type' = r.st.field_type
                          /\ external' = r.st.external
                     ELSE /\ line' = Append(line, new_char)
                          /\ UNCHANGED <<pc, ndim, sizes, data_type, field_type,
                                         external, err>>
    /\ UNCHANGED <<file, extfile, dims, data, handle, calls>>

\* File::open(&path) of the arm Some(path)
OpenPath(path) == IF path = ExtPath THEN extfile ELSE None

\* the reader boxed into the handle by each arm
InlineReader(p) == [src |-> "file", pos |-> p]

\* variant: the arm Some(path) keeps the reader of the header file
ExternalReader_inline(p) == [src |-> "file", pos |-> p]

ExternalReader(p) == [src |-> "ext", pos |-> 0]

\* match external { ... }: the result of open once the loop has broken
Finish(st, p) ==
    IF st.external = None
    THEN BuildHandle(st, InlineReader(p))
    ELSE IF OpenPath(Unwrap(st.external)) = None
         THEN Fail("IO", None)
         ELSE BuildHandle(st, ExternalReader(p))

Finalize ==
    /\ pc = "finalize"
    /\ LET r == Finish(Locals(ndim, sizes, data_type, field_type, external), pos)
       IN /\ pc' = IF r.kind = "ok" THEN "ready" ELSE "err"
          /\ err' = r.err
          /\ handle' = r.st
    /\ UNCHANGED <<file, extfile, dims, data, openLocals, calls>>

\* the bytes read_to_end appends: what is left of the handle's stream
StreamOf(rd) == IF rd.src = "file" THEN Unwrap(file) ELSE Unwrap(extfile)
Remaining(rd) == SubSeq(StreamOf(rd), rd.pos + 1, Len(StreamOf(rd)))
Drained(h) == [h EXCEPT !.reader.pos = Len(StreamOf(h.reader))]

\* AVSFile::read_to_f32
ReadToF32 ==
    /\ pc = "ready"
    /\ Len(calls) < MaxReads
    /\ LET h == Unwrap(handle)
           r == DecodeF32(h.data_type, Product(h.sizes), Remaining(h.reader))
       IN /\ calls' = Append(calls, [op |-> "read_to_f32", res |-> r.res, val |-> r.val,
                                    nread |-> Len(Remaining(h.reader)),
                                    width |-> num_bytes(h.data_type)])
          /\ handle' = Some(Drained(h))
          /\ pc' = IF r.res = "Ok" THEN "ready" ELSE "panic"
    /\ UNCHANGED <<file, extfile, dims, data, openLocals, err>>

\* AVSFile::read::<T> with size_of::<T>() = w
Read(w, fill, clobbered) ==
    /\ pc = "ready"
    /\ Len(calls) < MaxReads
    /\ LET h == Unwrap(handle)
       IN /\ calls' = Append(calls,
                 [op |-> "read", res |-> "Ok",
                  val |-> RawVec(Product(h.sizes), w, Remaining(h.reader), fill, clobbered),
                  nread |-> Len(Remaining(h.reader)), width |-> w])
          /\ handle' = Some(Drained(h))
    /\ UNCHANGED <<file, extfile, dims, data, pc, openLocals, err>>

Next ==
    \/ Write
    \/ OpenFile
    \/ ScanByte
    \/ Finalize
    \/ ReadToF32
    \/ \E w \in TWidths, fill \in UninitBytes, clobbered \in BOOLEAN : Read(w, fill, clobbered)

Spec == Init /\ [][Next]_vars

\* the calls are made one after the other by a running thread: a step that
\* can be taken is taken
FairSpec == Spec /\ WF_vars(Next)

\* ================================================================== claims
F == Unwrap(file)

\* the positions i with bytes i and i+1 both form feeds
SentinelStarts == {i \in 1..(Len(F) - 1) : F[i] = FF /\ F[i + 1] = FF}
HasSentinel == IsSome(file) /\ SentinelStarts # {}
FirstSentinel == CHOOSE i \in SentinelStarts : \A j \in SentinelStarts : i <= j
SentinelEnd == FirstSentinel + 1       \* bytes up to and including the 2nd FF

\* C1: the scan loop breaks exactly when the reader has consumed the bytes up
\* to and including the second byte of the first pair of adjacent form feeds,
\* newline before it or not; while scanning it has consumed fewer; and a
\* handle on the same stream starts at the byte after that pair.
C1_ScanStopsAtFirstSentinel ==
    /\ pc = "finalize" => HasSentinel /\ pos = SentinelEnd
    /\ pc = "scan" /\ HasSentinel => pos < SentinelEnd
    /\ pc = "ready" => HasSentinel /\ pos = SentinelEnd
    /\ pc = "ready" /\ calls = <<>> /\ Unwrap(handle).reader.src = "file"
          => Unwrap(handle).reader.pos = SentinelEnd

\* the loop has broken at a sentinel that no newline precedes, after a lone
\* form feed earlier in the stream, and bytes follow the sentinel
C1_Witness ==
    /\ pc = "finalize"
    /\ pos >= 3 /\ F[pos - 2] # NL
    /\ \E i \in 1..(pos - 3) : F[i] = FF /\ F[i + 1] # FF
    /\ Len(F) > pos

\* C2: a read_to_f32 whose stream supplied fewer than product(sizes) *
\* num_bytes bytes returns the malformed-payload error.
C2_ShortPayloadIsMalformed ==
    \A i \in 1..Len(calls) :
        (/\ calls[i].op = "read_to_f32"
         /\ calls[i].nread < Product(Unwrap(handle).sizes) * num_bytes(Unwrap(handle).data_type))
        => calls[i].res = "Malformed"

\* ndim, data, field and the slots 0..ndim-1 have all been set
AllSet ==
    /\ IsSome(ndim) /\ IsSome(data_type) /\ IsSome(field_type)
    /\ \A idx \in 1..Unwrap(ndim) : idx <= Len(sizes) /\ IsSome(sizes[idx])

\* C3: once the sentinel is reached, open returns a handle only if ndim,
\* data, field and every slot below ndim are set, and Error::Malformed if one
\* of them is missing, whatever the other lines are.
C3_MissingIsMalformed ==
    [][pc = "finalize" =>
          /\ pc' = "ready" => AllSet
          /\ ~AllSet => pc' = "err" /\ err' = "Malformed"]_vars

\* C4: what write produced from extents of length 1..7 and product(extents)
\* elements opens without error into a handle with those extents, and
\* read_to_f32 returns those elements, byte for byte.
C4_RoundTrip ==
    (Len(dims) \in 1..MaxDimKey /\ Len(data) = Product(dims) /\ pc # "write") =>
        /\ err = "None"
        /\ calls = <<>> => pc # "panic"
        /\ pc = "ready" => /\ Unwrap(handle).sizes = dims
                           /\ Unwrap(handle).ndim = Len(dims)
        /\ (calls # <<>> /\ calls[1].op = "read_to_f32")
              => calls[1].res = "Ok" /\ calls[1].val = data

C4_Witness ==
    /\ Len(dims) = 2 /\ Len(data) = 2 /\ Product(dims) = 2
    /\ data[1] # data[2]
    /\ calls # <<>> /\ calls[1].op = "read_to_f32"
    /\ calls[1].res = "Ok" /\ calls[1].val = data

\* the scan is about to complete a line
AtNewline == pc = "scan" /\ pos < Len(F) /\ F[pos + 1] = NL
CurrentLine == Append(line, NL)
HasEq(l) == \E i \in 1..Len(l) : l[i] = EQ
RecognizedKeys == {K_ndim, K_data, K_field, K_variable} \cup {DimKey(K) : K \in 1..MaxDimKey}
KeyOf(l) == Tokens(l)[1]

\* C5: a line without '=' or with an unrecognized key raises no error and
\* leaves ndim, the slots, the encoding, the field kind and the path as
\* they were.
C5_OtherLinesIgnored ==
    [][(AtNewline /\ (~HasEq(CurrentLine) \/ KeyOf(CurrentLine) \notin RecognizedKeys)) =>
          /\ pc' = "scan" /\ err' = err
          /\ UNCHANGED <<ndim, sizes, data_type, field_type, external>>]_vars

\* C6: a dimK line processed before any ndim line makes open return an error.
C6_DimBeforeNdimIsError ==
    [][(AtNewline /\ ndim = None /\ \E K \in 1..MaxDimKey : KeyOf(CurrentLine) = DimKey(K)) =>
          pc' = "err" /\ err' # "None"]_vars

\* C7: on one handle no payload read after the first returns Ok.
C7_SecondReadNotOk ==
    \A i \in 2..Len(calls) : calls[i].res # "Ok"

\* C8: with a `variable 1 file` line the handle reads the referenced file
\* from byte 0, and what the first payload read returns is determined by that
\* file's bytes, the element count and the encoding alone.
C8_ExternalOnly ==
    (pc \in {"ready", "panic"} /\ IsSome(handle) /\ IsSome(external)) =>
        LET h == Unwrap(handle)
            X == Unwrap(extfile)
            w == num_bytes(h.data_type)
        IN /\ h.reader.src = "ext"
           /\ calls = <<>> => h.reader.pos = 0
           /\ calls # <<>> =>
                /\ calls[1].nread = Len(X)
                /\ (calls[1].op = "read_to_f32" /\ calls[1].res = "Ok") =>
                      \A n \in 1..Len(calls[1].val) :
                          calls[1].val[n] =
                             convert_to_f32(h.data_type, SubSeq(X, (n - 1) * w + 1, n * w))
                /\ calls[1].op = "read" =>
                      \A n \in 1..Len(calls[1].val) :
                        \A k \in 1..Len(calls[1].val[n]) :
                          LET i == (n - 1) * Len(calls[1].val[n]) + k
                          IN \/ calls[1].val[n][k] \in UninitBytes
                             \/ i <= Len(X) /\ calls[1].val[n][k] = X[i]

\* an external payload was decoded while other bytes follow the sentinel in
\* the header file
C8_Witness ==
    /\ pc = "ready" /\ IsSome(external)
    /\ Len(F) > pos /\ SubSeq(F, pos + 1, Len(F)) # Unwrap(extfile)
    /\ calls # <<>> /\ calls[1].op = "read_to_f32" /\ calls[1].res = "Ok"
    /\ Len(calls[1].val) > 1

\* the well-formed inline headers with N axes, each followed by the sentinel
WellFormedFiles ==
    [N \in 0..MaxDims |->
        {WellFormedHeader(N, perm, dtv, FALSE) \o <<FF, FF>> \o PayloadOf(m) :
            perm \in Perms(N), dtv \in DataNames,
            m \in UNION {Around(Need(N, d)) : d \in DataNames}}]

\* C9: for ndim=N and dim1..dimN in any order open returns the value of dimK
\* at sizes[K-1], and the decoders use the product of these values as the
\* element count.
C9_AxisOrder ==
    \A N \in 1..MaxDims :
        (IsSome(file) /\ F \in WellFormedFiles[N]) =>
            /\ err = "None"
            /\ calls = <<>> => pc # "panic"
            /\ pc = "ready" => Unwrap(handle).sizes = Extents(N)
            /\ \A i \in 1..Len(calls) :
                  /\ calls[i].res = "Ok" => Len(calls[i].val) = Product(Extents(N))
                  /\ calls[i].res = "panic" =>
                        calls[i].nread < Product(Extents(N)) * num_bytes(Unwrap(handle).data_type)

\* ndim=3 with the dim lines out of order gave [2,3,4] and 24 elements
C9_Witness ==
    /\ IsSome(file) /\ F \in WellFormedFiles[3]
    /\ SubSeq(F, 8, 11) # DimKey(1)
    /\ pc = "ready" /\ Unwrap(handle).sizes = <<2, 3, 4>>
    /\ calls # <<>> /\ calls[1].op = "read_to_f32" /\ calls[1].res = "Ok"
    /\ Len(calls[1].val) = 24

ValueOf(l) == Tokens(l)[2]
NumericKeys == {K_ndim} \cup {DimKey(K) : K \in 1..MaxDimKey}

\* C10: a non-numeric value on an ndim or dimK line yields Error::Parse, an
\* unrecognized value on a data line Error::DataType, on a field line
\* Error::FieldType, a missing required key Error::Malformed; the error is
\* that of the first offending line.
C10_ErrorKinds ==
    [][/\ (AtNewline /\ HasEq(CurrentLine) /\ KeyOf(CurrentLine) \in NumericKeys
             /\ ParseUsize(ValueOf(CurrentLine)) = None)
          => pc' = "err" /\ err' = "Parse"
       /\ (AtNewline /\ HasEq(CurrentLine) /\ KeyOf(CurrentLine) = K_data
             /\ DataType_from_str(ValueOf(CurrentLine)) = None)
          => pc' = "err" /\ err' = "DataType"
       /\ (AtNewline /\ HasEq(CurrentLine) /\ KeyOf(CurrentLine) = K_field
             /\ FieldType_from_str(ValueOf(CurrentLine)) = None)
          => pc' = "err" /\ err' = "FieldType"
       /\ (pc = "finalize" /\ ~AllSet) => pc' = "err" /\ err' = "Malformed"]_vars

\* the text after the first '=' of a line, trimmed
FirstEq(l) == CHOOSE i \in 1..Len(l) : l[i] = EQ /\ \A j \in 1..(i - 1) : l[j] # EQ
AfterFirstEq(l) == Trim(SubSeq(l, FirstEq(l) + 1, Len(l)))

\* C11: the value of a line is the whole trimmed text after its first '=',
\* further '=' included; a `variable 1 file` line stores that whole value as
\* the external path, and a numeric key parses that whole value.
C11_SplitOnFirstEq ==
    [][/\ (AtNewline /\ HasEq(CurrentLine) /\ KeyOf(CurrentLine) = K_variable)
          => external' = Some(AfterFirstEq(CurrentLine))
       /\ (AtNewline /\ HasEq(CurrentLine) /\ KeyOf(CurrentLine) \in NumericKeys
             /\ ParseUsize(AfterFirstEq(CurrentLine)) = None)
          => pc' = "err" /\ err' = "Parse"]_vars

\* C12: a raw read whose stream supplied a number of bytes that is not a
\* multiple of size_of::<T>() does not return Ok.
C12_RawReadChecksMultiple ==
    \A i \in 1..Len(calls) :
        (calls[i].op = "read" /\ calls[i].nread % calls[i].width # 0)
        => calls[i].res # "Ok"

\* C13: read_to_f32 returns Ok only if the bytes left in the stream number
\* exactly product(sizes) * num_bytes.
C13_ExactLengthOnly ==
    \A i \in 1..Len(calls) :
        (calls[i].op = "read_to_f32" /\ calls[i].res = "Ok")
        => calls[i].nread = Product(Unwrap(handle).sizes) * calls[i].width

\* the header lines of a written file as text, one per extent from axis k on
RECURSIVE DimLinesFrom(_, _)
DimLinesFrom(k, ds) ==
    IF k > Len(ds) THEN <<>>
    ELSE <<100, 105, 109>> \o Decimal(k) \o <<61>> \o Decimal(ds[k]) \o <<10>>
         \o DimLinesFrom(k + 1, ds)

RECURSIVE BytesOf(_, _)
BytesOf(d, n) == IF n > Len(d) THEN <<>> ELSE d[n] \o BytesOf(d, n + 1)

\* "# AVS FLD file (written by avsfldrs github.com/greyhill/avsfldrs)\n",
\* "ndim=N\n", "veclen=1\n", "nspace=N\n", "field=uniform\n",
\* "data=float_le\n", the dimK lines, 0x0C 0x0C, the bytes of the data
ExpectedFile(ds, d) ==
    <<35, 32, 65, 86, 83, 32, 70, 76, 68, 32, 102, 105, 108, 101, 32, 40, 119, 114, 105, 116, 116, 101, 110, 32, 98, 121, 32, 97, 118, 115, 102, 108, 100, 114, 115, 32, 103, 105, 116, 104, 117, 98, 46, 99, 111, 109, 47, 103, 114, 101, 121, 104, 105, 108, 108, 47, 97, 118, 115, 102, 108, 100, 114, 115, 41, 10>>
    \o <<110, 100, 105, 109, 61>> \o Decimal(Len(ds)) \o <<10>>
    \o <<118, 101, 99, 108, 101, 110, 61, 49, 10>>
    \o <<110, 115, 112, 97, 99, 101, 61>> \o Decimal(Len(ds)) \o <<10>>
    \o <<102, 105, 101, 108, 100, 61, 117, 110, 105, 102, 111, 114, 109, 10>>
    \o <<100, 97, 116, 97, 61, 102, 108, 111, 97, 116, 95, 108, 101, 10>>
    \o DimLinesFrom(1, ds)
    \o <<12, 12>>
    \o BytesOf(d, 1)

\* C14: write produces exactly the comment line, ndim=N, veclen=1, nspace=N,
\* field=uniform, data=float_le, dimK=extents[K-1] for K = 1..N, the two
\* form feeds and the bytes of the data, and nothing else.
C14_WrittenBytes ==
    [][pc = "write" => file' = Some(ExpectedFile(dims, data))]_vars

C14_Witness ==
    /\ pc = "open" /\ Len(dims) = 2 /\ dims[1] # dims[2] /\ Len(data) = 2
    /\ file = Some(ExpectedFile(dims, data))

\* the bytes the handle's stream held when open returned
PayloadStream ==
    IF Unwrap(handle).reader.src = "file" THEN SubSeq(F, pos + 1, Len(F))
    ELSE Unwrap(extfile)

\* the number an f32 holds, for the singles that hold an integer below 256
F32Exponent(f) == 2 * f[4] + (f[3] \div 128) - 127
F32Mantissa(f) == 8388608 + (f[3] % 128) * 65536 + f[2] * 256 + f[1]
F32Number(f) ==
    IF f = <<0, 0, 0, 0>> THEN 0
    ELSE F32Mantissa(f) \div Pow2(23 - F32Exponent(f))
F32IsSmallInt(f) ==
    \/ f = <<0, 0, 0, 0>>
    \/ /\ f[4] < 128 /\ F32Exponent(f) \in 0..7
       /\ F32Mantissa(f) % Pow2(23 - F32Exponent(f)) = 0

\* C15: element n of read_to_f32's result comes from the bytes
\* [n*width, (n+1)*width) of the payload: reversed for xdr_float, in stream
\* order for float_le, and for byte the number b of the single byte.
C15_Conversion ==
    (pc \in {"ready", "panic"} /\ IsSome(handle) /\ calls # <<>>
        /\ calls[1].op = "read_to_f32" /\ calls[1].res = "Ok") =>
       LET dt == Unwrap(handle).data_type
           P == PayloadStream
           v == calls[1].val
       IN \A n \in 1..Len(v) :
            CASE dt = "XDRFloat" -> \A k \in 1..4 : v[n][k] = P[4 * (n - 1) + (5 - k)]
              [] dt = "FloatLE" -> \A k \in 1..4 : v[n][k] = P[4 * (n - 1) + k]
              [] dt = "Byte" -> F32IsSmallInt(v[n]) /\ F32Number(v[n]) = P[n]

\* the big-endian bytes 40 49 0f db decoded to the single 0x40490fdb, the
\* little-endian decode of the same bytes differs
C15_Witness ==
    /\ pc = "ready" /\ calls # <<>>
    /\ calls[1].op = "read_to_f32" /\ calls[1].res = "Ok"
    /\ Unwrap(handle).data_type = "XDRFloat"
    /\ SubSeq(PayloadStream, 1, 4) = <<64, 73, 15, 219>>
    /\ calls[1].val[1] = <<219, 15, 73, 64>>
    /\ Len(calls[1].val) >= 2

\* C16: a returned handle has as many sizes as its ndim, also when the
\* header gives ndim more than once, and each of them is a slot that a dimK
\* line of the header has set to its value.
C16_SizesMatchNdim ==
    [][/\ (pc = "finalize" /\ pc' = "ready") =>
            LET h == Unwrap(handle')
            IN /\ Len(h.sizes) = h.ndim
               /\ h.ndim = Unwrap(ndim)
               /\ \A idx \in 1..Len(h.sizes) :
                     IsSome(sizes[idx]) /\ h.sizes[idx] = Unwrap(sizes[idx])
       /\ \A idx \in 1..Len(sizes') :
            (IsSome(sizes'[idx]) /\ (idx > Len(sizes) \/ sizes[idx] # sizes'[idx])) =>
               /\ AtNewline
               /\ \E K \in 1..MaxDimKey : KeyOf(CurrentLine) = DimKey(K)
               /\ sizes'[idx] = ParseUsize(ValueOf(CurrentLine))]_vars

\* a handle from a header whose ndim lines pushed more slots than ndim counts
C16_Witness ==
    /\ pc = "ready" /\ calls = <<>>
    /\ Len(sizes) > Unwrap(ndim)
    /\ Unwrap(handle).ndim = 2 /\ Unwrap(handle).sizes = <<2, 3>>

\* C17: with an extent of 0 the element count is 0, and read_to_f32 returns
\* Ok with an empty array, also when the payload is empty.
C17_ZeroExtent ==
    (pc \in {"ready", "panic"} /\ IsSome(handle) /\ calls # <<>>
        /\ calls[1].op = "read_to_f32"
        /\ \E idx \in 1..Len(Unwrap(handle).sizes) : Unwrap(handle).sizes[idx] = 0)
    => calls[1].res = "Ok" /\ calls[1].val = <<>>

C17_Witness ==
    /\ pc = "ready" /\ calls # <<>> /\ calls[1].op = "read_to_f32"
    /\ Len(Unwrap(handle).sizes) = 2
    /\ Unwrap(handle).sizes[1] = 0 /\ Unwrap(handle).sizes[2] = 2
    /\ calls[1].nread = 0
    /\ calls[1].res = "Ok" /\ calls[1].val = <<>>

\* C18: the scan of open ends with open returning to its caller, also when
\* the stream ends before two adjacent form feeds.
C18_ScanReturns ==
    (pc = "scan") ~> (pc \in {"ready", "err", "panic"})

\* C19: a dimK line with ndim = N < K <= 7 leaves open running or returning
\* an Error, and stores nothing in sizes.
C19_DimBeyondNdim ==
    [][(AtNewline /\ IsSome(ndim)
          /\ \E K \in 1..MaxDimKey : K > Unwrap(ndim) /\ KeyOf(CurrentLine) = DimKey(K)) =>
          /\ pc' \in {"scan", "err"}
          /\ sizes' = sizes]_vars

====
